---- MODULE Spec2Model ----
(***************************************************************************)
(* Model of the web scraper's request handler (src/api/index.go):          *)
(* the recent-history tracker (addToVisited / getVisited under mu), the    *)
(* scrape pipeline (scrapeWebsite) and the per-request Handler.            *)
(* Strings are TLA+ strings; Len, SubSeq and \o act on them character by   *)
(* character.                                                              *)
(***************************************************************************)
EXTENDS Integers, Sequences, FiniteSets, TLC

(***************************************************************************)
(* Program constants and bounds                                            *)
(***************************************************************************)
\* len(visitedURLs) > 10 : the history capacity
MaxVisited == 10

\* the only status scrapeWebsite accepts
StatusOKCode == 200

\* number of requests served in a run of Spec
MaxRequests == 3

\* number of requests served in a run of SpecHistory
MaxHistoryRequests == 12

\* number of final requests of a SpecHistory run that may arrive while
\* another request is in flight; the earlier ones arrive one at a time
MaxOverlapped == 4

\* the requests of a SpecHistory run (by number) that may repeat a URL
\* requested before: an early one and one arriving when the history is full
RepeatSlots == {4, 11}

\* largest elapsed time measured around a scrape, in half milliseconds
MaxElapsed == 1

\* concurrent handler invocations
Handlers == {1, 2}

\* mu when no goroutine holds it
Unlocked == 0

(***************************************************************************)
(* strings package                                                         *)
(***************************************************************************)
Whitespace == {" ", "\t", "\n", "\r"}

CharAt(s, i) == SubSeq(s, i, i)

HasPrefix(s, prefix) ==
    /\ Len(s) >= Len(prefix)
    /\ SubSeq(s, 1, Len(prefix)) = prefix

HasSuffix(s, suffix) ==
    /\ Len(s) >= Len(suffix)
    /\ SubSeq(s, Len(s) - Len(suffix) + 1, Len(s)) = suffix

TrimSuffix(s, suffix) ==
    IF HasSuffix(s, suffix) THEN SubSeq(s, 1, Len(s) - Len(suffix)) ELSE s

RECURSIVE TrimLeft(_)
TrimLeft(s) ==
    IF Len(s) > 0 /\ CharAt(s, 1) \in Whitespace
    THEN TrimLeft(SubSeq(s, 2, Len(s)))
    ELSE s

RECURSIVE TrimRight(_)
TrimRight(s) ==
    IF Len(s) > 0 /\ CharAt(s, Len(s)) \in Whitespace
    THEN TrimRight(SubSeq(s, 1, Len(s) - 1))
    ELSE s

TrimSpace(s) == TrimRight(TrimLeft(s))

\* strings.Split(s, sep) for a one-character separator
RECURSIVE Split(_, _)
Split(s, sep) ==
    LET hits == {i \in 1..Len(s) : CharAt(s, i) = sep} IN
    IF hits = {} THEN <<s>>
    ELSE LET i == CHOOSE k \in hits : \A m \in hits : k <= m IN
         <<SubSeq(s, 1, i - 1)>> \o Split(SubSeq(s, i + 1, Len(s)), sep)

RECURSIVE Join(_, _)
Join(parts, sep) ==
    IF Len(parts) = 0 THEN ""
    ELSE IF Len(parts) = 1 THEN parts[1]
    ELSE parts[1] \o sep \o Join(Tail(parts), sep)

\* %d of a non-negative int
Digit(d) == CharAt("0123456789", d + 1)

RECURSIVE Itoa(_)
Itoa(n) == IF n < 10 THEN Digit(n) ELSE Itoa(n \div 10) \o Digit(n % 10)

(***************************************************************************)
(* Recent-history tracker                                                  *)
(***************************************************************************)
\* a scan that never finds the URL
IndexOfNever(list, url) == 0

\* for i, u := range visitedURLs { if u == url ... } : first match, 0 if none
IndexOf(list, url) ==
    LET hits == {i \in 1..Len(list) : list[i] = url} IN
    IF hits = {} THEN 0 ELSE CHOOSE k \in hits : \A m \in hits : k <= m

\* a removal that drops the front entry instead of entry i
RemoveAtFront(list, i) == Tail(list)

\* append(visitedURLs[:i], visitedURLs[i+1:]...)
RemoveAt(list, i) == SubSeq(list, 1, i - 1) \o SubSeq(list, i + 1, Len(list))

\* a trim that lets the list grow to 11 entries
TrimOldestLate(list) == IF Len(list) > MaxVisited + 1 THEN Tail(list) ELSE list

\* a trim that drops the newest entry instead of the oldest
TrimNewest(list) ==
    IF Len(list) > MaxVisited THEN SubSeq(list, 1, Len(list) - 1) ELSE list

\* if len(visitedURLs) > 10 { visitedURLs = visitedURLs[1:] }
TrimOldest(list) == IF Len(list) > MaxVisited THEN Tail(list) ELSE list

\* for i, j := 0, len(copied)-1; i < j; i, j = i+1, j-1 { swap }
RECURSIVE ReverseLoop(_, _, _)
ReverseLoop(copied, i, j) ==
    IF i < j
    THEN ReverseLoop([copied EXCEPT ![i] = copied[j], ![j] = copied[i]],
                     i + 1, j - 1)
    ELSE copied

\* a getVisited that returns the copy in storage order
getVisitedBodyUnreversed(list) == [ret |-> list, shared |-> list]

\* body of getVisited: the slice it returns and the shared slice it leaves
getVisitedBody(list) ==
    [ret |-> ReverseLoop(list, 1, Len(list)), shared |-> list]

(***************************************************************************)
(* Scrape pipeline                                                         *)
(***************************************************************************)
\* recommendedSites (URL and Selector of each entry)
recommendedSites ==
    << [URL |-> "https://news.ycombinator.com", Selector |-> ".titleline > a"],
       [URL |-> "https://www.reddit.com/r/golang/",
        Selector |-> "h3._eYtD2XCVieq6emjKBH3m"],
       [URL |-> "https://github.com/trending", Selector |-> "h2 a"] >>

\* selector strings the query engine compiles; any other string is invalid
ValidSelectors ==
    {"a", "p", ".titleline > a", "h3._eYtD2XCVieq6emjKBH3m", "h2 a"}

\* a Find whose matcher for an invalid selector matches every node
FindLenient(doc, sel) ==
    IF sel \notin ValidSelectors THEN doc
    ELSE SelectSeq(doc, LAMBDA n : sel \in n.sels)

\* doc.Find(selector): the nodes the compiled selector matches, in document
\* order; a selector that does not compile yields a matcher matching nothing
Find(doc, sel) ==
    IF sel \notin ValidSelectors THEN <<>>
    ELSE SelectSeq(doc, LAMBDA n : sel \in n.sels)

\* a normalization that exempts only the "http" prefix
NormalizeLinkHttpOnly(url, link) ==
    IF link # "" /\ ~HasPrefix(link, "http")
    THEN IF HasPrefix(link, "/")
         THEN LET parts == Split(url, "/") IN
              IF Len(parts) >= 3
              THEN Join(SubSeq(parts, 1, 3), "/") \o link
              ELSE TrimSuffix(url, "/") \o link
         ELSE TrimSuffix(url, "/") \o "/" \o link
    ELSE link

\* a normalization that joins a root-relative href to the whole page URL
NormalizeLinkWholeBase(url, link) ==
    IF link # "" /\ ~HasPrefix(link, "http") /\ ~HasPrefix(link, "mailto:")
    THEN IF HasPrefix(link, "/")
         THEN TrimSuffix(url, "/") \o link
         ELSE TrimSuffix(url, "/") \o "/" \o link
    ELSE link

\* a normalization that treats an href starting "//" as path-relative
NormalizeLinkSlashSlash(url, link) ==
    IF link # "" /\ ~HasPrefix(link, "http") /\ ~HasPrefix(link, "mailto:")
    THEN IF HasPrefix(link, "/") /\ ~HasPrefix(link, "//")
         THEN LET parts == Split(url, "/") IN
              IF Len(parts) >= 3
              THEN Join(SubSeq(parts, 1, 3), "/") \o link
              ELSE TrimSuffix(url, "/") \o link
         ELSE TrimSuffix(url, "/") \o "/" \o link
    ELSE link

\* lines 138-151: the href of a node made absolute against the page URL
NormalizeLink(url, link) ==
    IF link # "" /\ ~HasPrefix(link, "http") /\ ~HasPrefix(link, "mailto:")
    THEN IF HasPrefix(link, "/")
         THEN LET parts == Split(url, "/") IN
              IF Len(parts) >= 3
              THEN Join(SubSeq(parts, 1, 3), "/") \o link
              ELSE TrimSuffix(url, "/") \o link
         ELSE TrimSuffix(url, "/") \o "/" \o link
    ELSE link

\* a callback without the empty-title check
KeepTitleAlways(title) == TRUE

\* title == "" { return } : whether the Each callback keeps the node
KeepTitle(title) == title # ""

\* the Each callback folded over the selection
RECURSIVE Each(_, _, _)
Each(sel, url, results) ==
    IF Len(sel) = 0 THEN results
    ELSE LET s == Head(sel)
             title == TrimSpace(s.text)
         IN  IF KeepTitle(title)
             THEN Each(Tail(sel), url,
                       Append(results,
                              [Title |-> title,
                               Link |-> NormalizeLink(url, s.href)]))
             ELSE Each(Tail(sel), url, results)

NilError == [nil |-> TRUE, msg |-> ""]
Errorf(msg) == [nil |-> FALSE, msg |-> msg]

\* a status check that accepts every 2xx status
StatusRejected2xx(code) == code < 200 \/ code > 299

\* res.StatusCode != 200
StatusRejected(code) == code # StatusOKCode

\* a scrapeWebsite that ignores the error of NewDocumentFromReader
scrapeWebsiteParseUnchecked(url, sel, resp) ==
    IF ~resp.err.nil
    THEN [results |-> <<>>, err |-> resp.err]
    ELSE IF StatusRejected(resp.StatusCode)
    THEN [results |-> <<>>,
          err |-> Errorf("status code error: " \o Itoa(resp.StatusCode)
                         \o " " \o resp.Status)]
    ELSE [results |-> Each(Find(resp.Body.nodes, sel), url, <<>>),
          err |-> NilError]

\* scrapeWebsite(url, selector) given the outcome of http.Get
scrapeWebsite(url, sel, resp) ==
    IF ~resp.err.nil
    THEN [results |-> <<>>, err |-> resp.err]
    ELSE IF StatusRejected(resp.StatusCode)
    THEN [results |-> <<>>,
          err |-> Errorf("status code error: " \o Itoa(resp.StatusCode)
                         \o " " \o resp.Status)]
    ELSE IF ~resp.Body.readable
    THEN [results |-> <<>>, err |-> Errorf("unexpected EOF")]
    ELSE [results |-> Each(Find(resp.Body.nodes, sel), url, <<>>),
          err |-> NilError]

(***************************************************************************)
(* Inputs: requests and the responses of the scraped sites                 *)
(***************************************************************************)
\* the (url, selector) query parameters of the requests: no url; a catalog
\* URL without and with a selector; another URL without a selector, with a
\* valid and with an invalid one
Requests ==
    { [url |-> "", selector |-> "a"],
      [url |-> "https://github.com/trending", selector |-> ""],
      [url |-> "https://github.com/trending", selector |-> "a"],
      [url |-> "http://e.com/a", selector |-> ""],
      [url |-> "http://e.com/a", selector |-> "a"],
      [url |-> "http://e.com/a", selector |-> "a["] }

DocMixed ==
    << [sels |-> {"a", "h2 a"}, text |-> " A ", href |-> "/c"],
       [sels |-> {"a"}, text |-> " \n", href |-> "http://x"],
       [sels |-> {"p"}, text |-> "P", href |-> ""],
       [sels |-> {"a", "h2 a"}, text |-> "B", href |-> "c"] >>

DocBlank == << [sels |-> {"a"}, text |-> "", href |-> "d"] >>

NoBody == [readable |-> FALSE, nodes |-> <<>>]

\* the bodies a 200 response carries: two documents and an unreadable body
Bodies ==
    { [readable |-> TRUE, nodes |-> DocMixed],
      [readable |-> TRUE, nodes |-> DocBlank],
      NoBody }

\* the statuses of the other responses, each carrying DocMixed
OtherStatusCodes == {201, 404}

StatusLine(code) == Itoa(code) \o " S"

Responses ==
    { [err |-> Errorf("no such host"), StatusCode |-> 0, Status |-> "",
       Body |-> NoBody] }
    \cup
    { [err |-> NilError, StatusCode |-> StatusOKCode,
       Status |-> StatusLine(StatusOKCode), Body |-> b] : b \in Bodies }
    \cup
    { [err |-> NilError, StatusCode |-> c, Status |-> StatusLine(c),
       Body |-> [readable |-> TRUE, nodes |-> DocMixed]] :
         c \in OtherStatusCodes }

NoResponse == [err |-> NilError, StatusCode |-> 0, Status |-> "", Body |-> NoBody]

HistoryURL(k) == "http://h/" \o Itoa(k)

\* largest number of pieces an href of SpecLinks is made of
MaxHrefPieces == 3

\* the pieces: the two exempt prefixes, a part of one, a slash, a path letter
HrefPieces == {"http", "mailto:", "mail", "/", "c"}

RECURSIVE HrefsOf(_)
HrefsOf(n) ==
    IF n = 0 THEN {""}
    ELSE LET shorter == HrefsOf(n - 1) IN
         shorter \cup {a \o p : a \in shorter, p \in HrefPieces}

\* the href attributes of SpecLinks
Hrefs == HrefsOf(MaxHrefPieces)

\* the page URLs of SpecLinks: with a path, bare, with a trailing slash,
\* without a scheme (one and two segments), and three segments ending in "/"
Bases ==
    { "https://example.com/a/b", "https://example.com",
      "https://example.com/", "example.com", "example.com/", "a/b/" }

\* no normalization under way
NoNorm == [stage |-> "none", base |-> "", href |-> "", link |-> "", again |-> ""]

(***************************************************************************)
(* State                                                                   *)
(***************************************************************************)
VARIABLES
    visitedURLs,   \* the shared history slice
    mu,            \* holder of the mutex, Unlocked if none
    pc,            \* position of each handler invocation
    r,             \* the request each handler serves (url, selector params)
    selector,      \* Handler's local selector
    copied,        \* getVisited's local copy
    data,          \* the PageData values
    res,           \* the response http.Get returned to the handler
    ret,           \* what scrapeWebsite returned to the handler
    since,         \* time.Since(start) of the handler, in half milliseconds
    entry,         \* history: visitedURLs when addToVisited took the lock
    committed,     \* history: visitedURLs when addToVisited last returned
    recorded,      \* history: the URLs of the last two completed addToVisited
    served,        \* number of requests received
    fresh,         \* number of distinct history URLs requested so far
    repeats,       \* number of requests that repeated a history URL
    norm           \* a link normalization on its own: inputs and outputs

vars == <<visitedURLs, mu, pc, r, selector, copied, data, res, ret, since,
          entry, committed, recorded, served, fresh, repeats, norm>>

ZeroPageData ==
    [URL |-> "", Selector |-> "", Results |-> <<>>, Duration |-> 0,
     Error |-> "", Visited |-> <<>>]

NoRequest == [url |-> "", selector |-> ""]

NoReturn == [results |-> <<>>, err |-> NilError]

\* one PageData shared by all invocations, as package-level variables are
DataOfShared(h) == 1

\* data is a local of the invocation: each handler has its own PageData
DataOf(h) == h

Init ==
    /\ visitedURLs = <<>>
    /\ mu = Unlocked
    /\ pc = [h \in Handlers |-> "idle"]
    /\ r = [h \in Handlers |-> NoRequest]
    /\ selector = [h \in Handlers |-> ""]
    /\ copied = [h \in Handlers |-> <<>>]
    /\ data = [h \in Handlers |-> ZeroPageData]
    /\ res = [h \in Handlers |-> NoResponse]
    /\ ret = [h \in Handlers |-> NoReturn]
    /\ since = [h \in Handlers |-> 0]
    /\ entry = <<>>
    /\ committed = <<>>
    /\ recorded = <<>>
    /\ served = 0
    /\ fresh = 0
    /\ repeats = 0
    /\ norm = NoNorm

(***************************************************************************)
(* Handler : one invocation per request                                    *)
(***************************************************************************)
\* the request arrives; the handler starts with data := PageData{...}
Request(h, u, s) ==
    /\ pc[h] = "idle"
    /\ \A g \in Handlers : g < h => pc[g] # "idle"
    /\ r' = [r EXCEPT ![h] = [url |-> u, selector |-> s]]
    /\ pc' = [pc EXCEPT ![h] = "getVisited"]
    /\ served' = served + 1
    /\ UNCHANGED norm
    /\ UNCHANGED <<visitedURLs, mu, selector, copied, data, res, ret, since,
                   entry, committed, recorded>>

\* a getVisited that reads the list without taking the mutex
GvLockSkipped(h) ==
    /\ pc[h] = "getVisited"
    /\ pc' = [pc EXCEPT ![h] = "gvCopy"]
    /\ UNCHANGED norm
    /\ UNCHANGED <<visitedURLs, mu, r, selector, copied, data, res, ret, since,
                   entry, committed, recorded, served, fresh, repeats>>

\* getVisited: mu.Lock()
GvLock(h) ==
    /\ pc[h] = "getVisited"
    /\ mu = Unlocked
    /\ mu' = h
    /\ pc' = [pc EXCEPT ![h] = "gvCopy"]
    /\ UNCHANGED norm
    /\ UNCHANGED <<visitedURLs, r, selector, copied, data, res, ret, since,
                   entry, committed, recorded, served, fresh, repeats>>

\* getVisited: make, copy and the reversing loop
GvCopy(h) ==
    /\ pc[h] = "gvCopy"
    /\ LET b == getVisitedBody(visitedURLs) IN
         /\ copied' = [copied EXCEPT ![h] = b.ret]
         /\ visitedURLs' = b.shared
    /\ pc' = [pc EXCEPT ![h] = "gvReturn"]
    /\ UNCHANGED norm
    /\ UNCHANGED <<mu, r, selector, data, res, ret, since,
                   entry, committed, recorded, served, fresh, repeats>>

\* a handler whose page data is filled only after addToVisited has recorded
\* the URL, so that the snapshot shows the request's own URL first
GvReturnRecordedFirst(h) ==
    /\ pc[h] = "gvReturn"
    /\ mu' = Unlocked
    /\ copied' = [copied EXCEPT ![h] = <<>>]
    /\ selector' = [selector EXCEPT ![h] = r[h].selector]
    /\ IF r[h].url # ""
       THEN /\ data' = [data EXCEPT ![DataOf(h)] =
                          [ZeroPageData EXCEPT
                             !.Visited = getVisitedBody(
                                 TrimOldest(Append(
                                     SelectSeq(getVisitedBody(copied[h]).ret,
                                               LAMBDA x : x # r[h].url),
                                     r[h].url))).ret,
                             !.URL = r[h].url,
                             !.Selector = r[h].selector]]
            /\ pc' = [pc EXCEPT ![h] = "addToVisited"]
       ELSE /\ data' = [data EXCEPT ![DataOf(h)] =
                          [ZeroPageData EXCEPT !.Visited = copied[h]]]
            /\ pc' = [pc EXCEPT ![h] = "render"]
    /\ UNCHANGED norm
    /\ UNCHANGED <<visitedURLs, r, res, ret, since,
                   entry, committed, recorded, served, fresh, repeats>>

\* getVisited returns (deferred mu.Unlock()); Handler lines 161-172 up to the
\* call of addToVisited
GvReturn(h) ==
    /\ pc[h] = "gvReturn"
    /\ mu' = Unlocked
    /\ copied' = [copied EXCEPT ![h] = <<>>]
    /\ selector' = [selector EXCEPT ![h] = r[h].selector]
    /\ IF r[h].url # ""
       THEN /\ data' = [data EXCEPT ![DataOf(h)] =
                          [ZeroPageData EXCEPT !.Visited = copied[h],
                                               !.URL = r[h].url,
                                               !.Selector = r[h].selector]]
            /\ pc' = [pc EXCEPT ![h] = "addToVisited"]
       ELSE /\ data' = [data EXCEPT ![DataOf(h)] =
                          [ZeroPageData EXCEPT !.Visited = copied[h]]]
            /\ pc' = [pc EXCEPT ![h] = "render"]
    /\ UNCHANGED norm
    /\ UNCHANGED <<visitedURLs, r, res, ret, since,
                   entry, committed, recorded, served, fresh, repeats>>

\* addToVisited: mu.Lock()
AvLock(h) ==
    /\ pc[h] = "addToVisited"
    /\ mu = Unlocked
    /\ mu' = h
    /\ entry' = visitedURLs
    /\ pc' = [pc EXCEPT ![h] = "avScan"]
    /\ UNCHANGED norm
    /\ UNCHANGED <<visitedURLs, r, selector, copied, data, res, ret, since,
                   committed, recorded, served, fresh, repeats>>

\* addToVisited: the range loop, up to the first assignment to visitedURLs
AvScan(h) ==
    /\ pc[h] = "avScan"
    /\ LET i == IndexOf(visitedURLs, r[h].url) IN
         IF i # 0
         THEN /\ visitedURLs' = RemoveAt(visitedURLs, i)
              /\ pc' = [pc EXCEPT ![h] = "avMove"]
         ELSE /\ visitedURLs' = Append(visitedURLs, r[h].url)
              /\ pc' = [pc EXCEPT ![h] = "avTrim"]
    /\ UNCHANGED norm
    /\ UNCHANGED <<mu, r, selector, copied, data, res, ret, since,
                   entry, committed, recorded, served, fresh, repeats>>

\* addToVisited: visitedURLs = append(visitedURLs, url); return
AvMove(h) ==
    /\ pc[h] = "avMove"
    /\ visitedURLs' = Append(visitedURLs, r[h].url)
    /\ pc' = [pc EXCEPT ![h] = "avReturn"]
    /\ UNCHANGED norm
    /\ UNCHANGED <<mu, r, selector, copied, data, res, ret, since,
                   entry, committed, recorded, served, fresh, repeats>>

\* addToVisited: if len(visitedURLs) > 10 { visitedURLs = visitedURLs[1:] }
AvTrim(h) ==
    /\ pc[h] = "avTrim"
    /\ visitedURLs' = TrimOldest(visitedURLs)
    /\ pc' = [pc EXCEPT ![h] = "avReturn"]
    /\ UNCHANGED norm
    /\ UNCHANGED <<mu, r, selector, copied, data, res, ret, since,
                   entry, committed, recorded, served, fresh, repeats>>

\* a lookup that falls back to the first catalog entry for every URL
DefaultSelectorFirst(url) == recommendedSites[1].Selector

\* lines 174-182: the selector of the first catalog entry whose URL is url
DefaultSelector(url) ==
    LET hits == {i \in 1..Len(recommendedSites) :
                   recommendedSites[i].URL = url} IN
    IF hits = {} THEN ""
    ELSE recommendedSites[CHOOSE k \in hits : \A m \in hits : k <= m].Selector

\* an addToVisited that returns without releasing the mutex
AvReturnLocked(h) ==
    /\ pc[h] = "avReturn"
    /\ committed' = visitedURLs
    /\ recorded' = IF Len(recorded) < 2 THEN Append(recorded, r[h].url)
                   ELSE <<recorded[2], r[h].url>>
    /\ LET sel == IF selector[h] = "" THEN DefaultSelector(r[h].url)
                  ELSE selector[h]
       IN  /\ selector' = [selector EXCEPT ![h] = sel]
           /\ IF sel # ""
              THEN /\ data' = [data EXCEPT ![DataOf(h)].Selector = sel]
                   /\ pc' = [pc EXCEPT ![h] = "scrape"]
              ELSE /\ data' = [data EXCEPT ![DataOf(h)].Error =
                                 "Please provide a CSS selector."]
                   /\ pc' = [pc EXCEPT ![h] = "render"]
    /\ entry' = <<>>
    /\ UNCHANGED <<visitedURLs, mu, r, copied, res, ret, since,
                   served, fresh, repeats, norm>>

\* addToVisited returns (deferred mu.Unlock()); Handler lines 174-196 up to
\* the call of scrapeWebsite
AvReturn(h) ==
    /\ pc[h] = "avReturn"
    /\ mu' = Unlocked
    /\ committed' = visitedURLs
    /\ recorded' = IF Len(recorded) < 2 THEN Append(recorded, r[h].url)
                   ELSE <<recorded[2], r[h].url>>
    /\ LET sel == IF selector[h] = "" THEN DefaultSelector(r[h].url)
                  ELSE selector[h]
       IN  /\ selector' = [selector EXCEPT ![h] = sel]
           /\ IF sel # ""
              THEN /\ data' = [data EXCEPT ![DataOf(h)].Selector = sel]
                   /\ pc' = [pc EXCEPT ![h] = "scrape"]
              ELSE /\ data' = [data EXCEPT ![DataOf(h)].Error =
                                 "Please provide a CSS selector."]
                   /\ pc' = [pc EXCEPT ![h] = "render"]
    /\ entry' = <<>>
    /\ UNCHANGED norm
    /\ UNCHANGED <<visitedURLs, r, copied, res, ret, since,
                   served, fresh, repeats>>

\* Duration.Round(time.Millisecond) of a duration in half milliseconds, in
\* milliseconds: halves round away from zero
RoundMs(d) == (d + 1) \div 2

\* lines 185-193: scrapeWebsite runs against the site's response, the elapsed
\* time is sampled, and the outcome is stored in data
ScrapeDone(h) ==
    /\ pc[h] = "scrape"
    /\ \E resp \in Responses, elapsed \in 0..MaxElapsed :
         LET out == scrapeWebsite(r[h].url, selector[h], resp) IN
           /\ res' = [res EXCEPT ![h] = resp]
           /\ ret' = [ret EXCEPT ![h] = out]
           /\ since' = [since EXCEPT ![h] = elapsed]
           /\ data' = [data EXCEPT ![DataOf(h)] =
                         IF ~out.err.nil
                         THEN [@ EXCEPT !.Duration = RoundMs(elapsed),
                                        !.Error = "Error scraping: "
                                                  \o out.err.msg]
                         ELSE [@ EXCEPT !.Duration = RoundMs(elapsed),
                                        !.Results = out.results]]
    /\ pc' = [pc EXCEPT ![h] = "render"]
    /\ UNCHANGED norm
    /\ UNCHANGED <<visitedURLs, mu, r, selector, copied,
                   entry, committed, recorded, served, fresh, repeats>>

\* tmpl.Execute(w, data): the response is written and the invocation ends
Render(h) ==
    /\ pc[h] = "render"
    /\ pc' = [pc EXCEPT ![h] = "idle"]
    /\ r' = [r EXCEPT ![h] = NoRequest]
    /\ selector' = [selector EXCEPT ![h] = ""]
    /\ data' = [data EXCEPT ![DataOf(h)] = ZeroPageData]
    /\ res' = [res EXCEPT ![h] = NoResponse]
    /\ ret' = [ret EXCEPT ![h] = NoReturn]
    /\ since' = [since EXCEPT ![h] = 0]
    /\ UNCHANGED norm
    /\ UNCHANGED <<visitedURLs, mu, copied,
                   entry, committed, recorded, served, fresh, repeats>>

(***************************************************************************)
(* Specifications                                                          *)
(***************************************************************************)
\* a request with url and selector parameters from the request sets
Serve(h) ==
    /\ served < MaxRequests
    /\ \E q \in Requests : Request(h, q.url, q.selector)
    /\ UNCHANGED <<fresh, repeats>>

\* whether the next request of a SpecHistory run may arrive now
MayArrive ==
    \/ served + MaxOverlapped >= MaxHistoryRequests
    \/ \A g \in Handlers : pc[g] = "idle"

\* a request for a history URL never requested before, without selector
ServeFresh(h) ==
    /\ served < MaxHistoryRequests
    /\ MayArrive
    /\ Request(h, HistoryURL(fresh + 1), "")
    /\ fresh' = fresh + 1
    /\ UNCHANGED repeats

\* a request for a history URL requested before, without selector
ServeRepeat(h) ==
    /\ served < MaxHistoryRequests
    /\ MayArrive
    /\ served + 1 \in RepeatSlots
    /\ \E k \in 1..fresh : Request(h, HistoryURL(k), "")
    /\ repeats' = repeats + 1
    /\ UNCHANGED fresh

Next ==
    \E h \in Handlers :
        \/ Serve(h)
        \/ GvLock(h)
        \/ GvCopy(h)
        \/ GvReturn(h)
        \/ AvLock(h)
        \/ AvScan(h)
        \/ AvMove(h)
        \/ AvTrim(h)
        \/ AvReturn(h)
        \/ ScrapeDone(h)
        \/ Render(h)

Spec == Init /\ [][Next]_vars

\* number of requests served in a run of SpecLive
MaxLiveRequests == 2

\* the requests of SpecLive: without url, without selector, with a selector
LiveRequests ==
    { [url |-> "", selector |-> "a"],
      [url |-> "http://e.com/a", selector |-> ""],
      [url |-> "http://e.com/a", selector |-> "a"] }

ServeLive(h) ==
    /\ served < MaxLiveRequests
    /\ \E q \in LiveRequests : Request(h, q.url, q.selector)
    /\ UNCHANGED <<fresh, repeats>>

NextLive ==
    \E h \in Handlers :
        \/ ServeLive(h)
        \/ GvLock(h)
        \/ GvCopy(h)
        \/ GvReturn(h)
        \/ AvLock(h)
        \/ AvScan(h)
        \/ AvMove(h)
        \/ AvTrim(h)
        \/ AvReturn(h)
        \/ ScrapeDone(h)
        \/ Render(h)

\* the scheduling the runtime gives: a goroutine that can run does run, and
\* a goroutine waiting for mu gets it when it is released again and again;
\* a fetch may never return and a request may never arrive
Fairness ==
    \A h \in Handlers :
        /\ SF_vars(GvLock(h))
        /\ SF_vars(AvLock(h))
        /\ WF_vars(GvCopy(h))
        /\ WF_vars(GvReturn(h))
        /\ WF_vars(AvScan(h))
        /\ WF_vars(AvMove(h))
        /\ WF_vars(AvTrim(h))
        /\ WF_vars(AvReturn(h))
        /\ WF_vars(Render(h))

SpecLive == Init /\ [][NextLive]_vars /\ Fairness

NextHistory ==
    \E h \in Handlers :
        \/ ServeFresh(h)
        \/ ServeRepeat(h)
        \/ GvLock(h)
        \/ GvCopy(h)
        \/ GvReturn(h)
        \/ AvLock(h)
        \/ AvScan(h)
        \/ AvMove(h)
        \/ AvTrim(h)
        \/ AvReturn(h)
        \/ Render(h)

SpecHistory == Init /\ [][NextHistory]_vars

(***************************************************************************)
(* Link normalization on its own: the statements of lines 138-151 applied  *)
(* to a page URL and an href, and applied again to their result            *)
(***************************************************************************)
InitLinks ==
    /\ visitedURLs = <<>>
    /\ mu = Unlocked
    /\ pc = [h \in Handlers |-> "idle"]
    /\ r = [h \in Handlers |-> NoRequest]
    /\ selector = [h \in Handlers |-> ""]
    /\ copied = [h \in Handlers |-> <<>>]
    /\ data = [h \in Handlers |-> ZeroPageData]
    /\ res = [h \in Handlers |-> NoResponse]
    /\ ret = [h \in Handlers |-> NoReturn]
    /\ since = [h \in Handlers |-> 0]
    /\ entry = <<>>
    /\ committed = <<>>
    /\ recorded = <<>>
    /\ served = 0
    /\ fresh = 0
    /\ repeats = 0
    /\ \E b \in Bases, l \in Hrefs :
         norm = [NoNorm EXCEPT !.stage = "input", !.base = b, !.href = l]

handlerVars == <<visitedURLs, mu, pc, r, selector, copied, data, res, ret,
                 since, entry, committed, recorded, served, fresh, repeats>>

\* link is normalized against the page URL
Normalize ==
    /\ norm.stage = "input"
    /\ norm' = [norm EXCEPT !.stage = "once",
                            !.link = NormalizeLink(norm.base, norm.href)]
    /\ UNCHANGED handlerVars

\* the normalized link is normalized again against the same page URL
NormalizeAgain ==
    /\ norm.stage = "once"
    /\ norm' = [norm EXCEPT !.stage = "twice",
                            !.again = NormalizeLink(norm.base, norm.link)]
    /\ UNCHANGED handlerVars

NextLinks == Normalize \/ NormalizeAgain

SpecLinks == InitLinks /\ [][NextLinks]_vars

(***************************************************************************)
(* Vocabulary of the properties                                            *)
(***************************************************************************)
Reversed(s) == [i \in 1..Len(s) |-> s[Len(s) + 1 - i]]

Distinct(s) == \A i, j \in 1..Len(s) : i # j => s[i] # s[j]

Elements(s) == {s[i] : i \in 1..Len(s)}

Without(s, u) == SelectSeq(s, LAMBDA x : x # u)

Contains(s, sub) ==
    \E i \in 1..(Len(s) - Len(sub) + 1) : SubSeq(s, i, i + Len(sub) - 1) = sub

Blank(s) == \A i \in 1..Len(s) : CharAt(s, i) \in Whitespace

\* t is text without its leading and trailing whitespace
TrimmedFrom(t, text) ==
    /\ t # ""
    /\ CharAt(t, 1) \notin Whitespace
    /\ CharAt(t, Len(t)) \notin Whitespace
    /\ \E i \in 1..Len(text) :
         /\ SubSeq(text, i, i + Len(t) - 1) = t
         /\ Blank(SubSeq(text, 1, i - 1))
         /\ Blank(SubSeq(text, i + Len(t), Len(text)))

\* the handlers whose scrapeWebsite call has returned
Scraped(h) == pc[h] = "render" /\ res[h] # NoResponse

\* the handlers whose scrapeWebsite call parsed a document
Parsed(h) ==
    /\ Scraped(h)
    /\ res[h].err.nil
    /\ res[h].StatusCode = 200
    /\ res[h].Body.readable

(***************************************************************************)
(* C1. Outside the lock the history, and every snapshot taken of it, holds *)
(* at most 10 entries.                                                     *)
(***************************************************************************)
C1_HistoryAtMostTen ==
    /\ mu = Unlocked => Len(visitedURLs) <= 10
    /\ \A h \in Handlers :
         /\ Len(copied[h]) <= 10
         /\ Len(data[h].Visited) <= 10

\* the history is full, unlocked, and its first URL has been evicted
C1_Witness ==
    /\ mu = Unlocked
    /\ Len(visitedURLs) = 10
    /\ fresh > 10
    /\ HistoryURL(1) \notin Elements(visitedURLs)

(***************************************************************************)
(* C2. The history never contains a URL more than once.                    *)
(***************************************************************************)
C2_NoDuplicates == Distinct(visitedURLs)

\* a URL already in the history has been recorded again
C2_Witness ==
    /\ repeats > 0
    /\ \A h \in Handlers : pc[h] = "idle"
    /\ Len(visitedURLs) >= 3

(***************************************************************************)
(* C3. When addToVisited has recorded a URL that was in the history, the   *)
(* length is unchanged, the URL is last in the list and first in the       *)
(* snapshot, the other entries keep their order and none is evicted.       *)
(***************************************************************************)
C3_RepeatMovesToEnd ==
    \A h \in Handlers :
        (pc[h] = "avReturn" /\ r[h].url \in Elements(entry)) =>
            /\ Len(visitedURLs) = Len(entry)
            /\ visitedURLs[Len(visitedURLs)] = r[h].url
            /\ getVisitedBody(visitedURLs).ret[1] = r[h].url
            /\ Without(visitedURLs, r[h].url) = Without(entry, r[h].url)
            /\ Elements(visitedURLs) = Elements(entry)

\* a URL in the middle of a full history has been recorded again
C3_Witness ==
    \E h \in Handlers :
        /\ pc[h] = "avReturn"
        /\ Len(entry) = 10
        /\ \E i \in 2..9 : entry[i] = r[h].url

(***************************************************************************)
(* C4. When addToVisited has recorded a URL that was not in the history:   *)
(* if the history held 10 entries, exactly the front entry is gone, the    *)
(* other 9 keep their order and the URL is appended; if it held fewer,     *)
(* the URL is appended and nothing is evicted.                             *)
(***************************************************************************)
C4_EvictsOldestWhenFull ==
    \A h \in Handlers :
        (pc[h] = "avReturn" /\ r[h].url \notin Elements(entry)) =>
            IF Len(entry) = 10
            THEN visitedURLs = Append(Tail(entry), r[h].url)
            ELSE /\ Len(entry) < 10
                 /\ visitedURLs = Append(entry, r[h].url)

\* a new URL has been recorded into a full history
C4_Witness ==
    \E h \in Handlers :
        /\ pc[h] = "avReturn"
        /\ r[h].url \notin Elements(entry)
        /\ Len(entry) = 10

(***************************************************************************)
(* C5. When the last two completed addToVisited calls recorded u1 and then *)
(* u2 # u1, getVisited returns a sequence with u2 first and u1 second.     *)
(***************************************************************************)
C5_SnapshotNewestFirst ==
    \A h \in Handlers :
        (pc[h] = "gvReturn" /\ Len(recorded) = 2
                            /\ recorded[1] # recorded[2]) =>
            /\ Len(copied[h]) >= 2
            /\ copied[h][1] = recorded[2]
            /\ copied[h][2] = recorded[1]

\* getVisited returns a full snapshot after two different URLs were recorded
C5_Witness ==
    \E h \in Handlers :
        /\ pc[h] = "gvReturn"
        /\ Len(recorded) = 2
        /\ recorded[1] # recorded[2]
        /\ Len(copied[h]) = 10

(***************************************************************************)
(* C6. What getVisited returns is the reverse of the history as the last   *)
(* completed addToVisited left it, and getVisited leaves the shared list   *)
(* as it was.                                                              *)
(***************************************************************************)
C6_SnapshotOfCompletedState ==
    \A h \in Handlers :
        pc[h] = "gvReturn" =>
              /\ copied[h] = Reversed(committed)
              /\ visitedURLs = committed

\* getVisited returns while another handler waits to record its URL
C6_Witness ==
    \E h, g \in Handlers :
        /\ pc[h] = "gvReturn"
        /\ pc[g] = "addToVisited"
        /\ Len(copied[h]) = 10

(***************************************************************************)
(* C7. The page a handler renders holds the URL and selector of its own    *)
(* request, and the results, duration and error of its own scrape call.    *)
(***************************************************************************)
C7_ResponseFromOwnRequest ==
    \A h \in Handlers :
        pc[h] = "render" =>
            LET d == data[DataOf(h)]
                sel == IF r[h].selector # "" THEN r[h].selector
                       ELSE DefaultSelector(r[h].url)
            IN  /\ d.URL = r[h].url
                /\ r[h].url = "" =>
                      /\ d.Selector = "" /\ d.Results = <<>>
                      /\ d.Error = "" /\ d.Duration = 0
                /\ (r[h].url # "" /\ sel = "") =>
                      /\ d.Selector = "" /\ d.Results = <<>>
                      /\ d.Error = "Please provide a CSS selector."
                      /\ d.Duration = 0
                /\ (r[h].url # "" /\ sel # "") =>
                      /\ d.Selector = sel
                      /\ d.Results = ret[h].results
                      /\ 2 * d.Duration \in {since[h], since[h] + 1}
                      /\ ret[h] = scrapeWebsite(r[h].url, sel, res[h])
                      /\ d.Error = IF ret[h].err.nil THEN ""
                                   ELSE "Error scraping: " \o ret[h].err.msg

\* two handlers render at once, one with results and one with an error
C7_Witness ==
    \E h, g \in Handlers :
        /\ pc[h] = "render" /\ pc[g] = "render"
        /\ r[h].url # r[g].url
        /\ data[h].Results # <<>>
        /\ data[g].Error # ""

(***************************************************************************)
(* C8. When the response status is not 200, scrapeWebsite returns an error *)
(* whose text carries the status number, and no results: the body is not   *)
(* parsed.                                                                 *)
(***************************************************************************)
C8_Non200IsStatusError ==
    \A h \in Handlers :
        (Scraped(h) /\ res[h].err.nil /\ res[h].StatusCode # 200) =>
            /\ ~ret[h].err.nil
            /\ Contains(ret[h].err.msg, Itoa(res[h].StatusCode))
            /\ res[h].StatusCode = 404 => Contains(ret[h].err.msg, "404")
            /\ res[h].StatusCode = 201 => Contains(ret[h].err.msg, "201")
            /\ ret[h].results = <<>>
            /\ data[h].Results = <<>>
            /\ Contains(data[h].Error, Itoa(res[h].StatusCode))

\* a 201 response whose body holds nodes the selector matches
C8_Witness ==
    \E h \in Handlers :
        /\ Scraped(h)
        /\ res[h].StatusCode = 201
        /\ selector[h] = "a"
        /\ res[h].Body.nodes = DocMixed

(***************************************************************************)
(* C9. After a successful fetch and parse, scrapeWebsite returns no error  *)
(* and exactly one result per matched node with non-blank text, in         *)
(* document order, each title being the node's text trimmed.               *)
(***************************************************************************)
C9_OneResultPerNonBlankMatch ==
    \A h \in Handlers :
        Parsed(h) =>
            LET matched == SelectSeq(res[h].Body.nodes,
                                     LAMBDA n : selector[h] \in n.sels)
                kept == SelectSeq(matched, LAMBDA n : ~Blank(n.text))
                results == ret[h].results
            IN  /\ ret[h].err.nil
                /\ Len(results) = Len(kept)
                /\ \A k \in 1..Len(results) :
                     /\ TrimmedFrom(results[k].Title, kept[k].text)
                     /\ ~Blank(results[k].Title)

\* a document with a blank match between two non-blank ones
C9_Witness ==
    \E h \in Handlers :
        /\ Parsed(h)
        /\ selector[h] = "a"
        /\ res[h].Body.nodes = DocMixed
        /\ Len(ret[h].results) = 2

\* only blank nodes match: no results and no error
C9_WitnessBlank ==
    \E h \in Handlers :
        /\ Parsed(h)
        /\ selector[h] = "a"
        /\ res[h].Body.nodes = DocBlank
        /\ ret[h] = NoReturn

(***************************************************************************)
(* C10. A scrape with an invalid selector string fails with an error.      *)
(***************************************************************************)
C10_InvalidSelectorFails ==
    \A h \in Handlers :
        (Scraped(h) /\ selector[h] \notin ValidSelectors) => ~ret[h].err.nil

(***************************************************************************)
(* C10 (amended). A scrape with an invalid selector string has the outcome *)
(* its fetch and parse give: after a 200 response with a readable body it  *)
(* returns no results and no error, as for a selector matching nothing.    *)
(***************************************************************************)
C10_InvalidSelectorMatchesNothing ==
    \A h \in Handlers :
        (Parsed(h) /\ selector[h] \notin ValidSelectors) =>
            /\ ret[h].err.nil
            /\ ret[h].results = <<>>
            /\ data[h].Error = ""
            /\ data[h].Results = <<>>

\* an invalid selector was run over a document with nodes
C10_Witness ==
    \E h \in Handlers :
        /\ Parsed(h)
        /\ selector[h] = "a["
        /\ res[h].Body.nodes = DocMixed

(***************************************************************************)
(* Vocabulary of the link properties                                       *)
(***************************************************************************)
Begins(s, p) ==
    /\ Len(p) <= Len(s)
    /\ \A i \in 1..Len(p) : CharAt(s, i) = CharAt(p, i)

Exempt(href) == href = "" \/ Begins(href, "http") \/ Begins(href, "mailto:")

\* the positions of "/" in s, and the k-th of them
Slashes(s) == {i \in 1..Len(s) : CharAt(s, i) = "/"}

Slash(s, k) ==
    CHOOSE i \in Slashes(s) : Cardinality({j \in Slashes(s) : j <= i}) = k

\* s without one trailing "/"
Stripped(s) ==
    IF Len(s) > 0 /\ CharAt(s, Len(s)) = "/" THEN SubSeq(s, 1, Len(s) - 1)
    ELSE s

\* whether base has three "/"-separated segments, and the first three of them
HasOrigin(base) == Cardinality(Slashes(base)) >= 2

Origin(base) ==
    IF Cardinality(Slashes(base)) >= 3
    THEN SubSeq(base, 1, Slash(base, 3) - 1)
    ELSE base

RootRelative(base, href) ==
    IF HasOrigin(base) THEN Origin(base) \o href ELSE Stripped(base) \o href

PathRelative(base, href) == Stripped(base) \o "/" \o href

(***************************************************************************)
(* C11. An href that is empty or starts with "http" or "mailto:" is        *)
(* returned unchanged, and normalizing the result again returns it again.  *)
(***************************************************************************)
C11_ExemptHrefUnchanged ==
    Exempt(norm.href) =>
        /\ norm.stage \in {"once", "twice"} => norm.link = norm.href
        /\ norm.stage = "twice" => norm.again = norm.link

\* a mailto: href against a page URL has been normalized twice
C11_Witness ==
    /\ norm.stage = "twice"
    /\ norm.base = "https://example.com"
    /\ norm.href = "mailto:c"

(***************************************************************************)
(* C12. A non-empty href starting with neither "http" nor "mailto:": if it *)
(* starts with "/", the result is the first three "/"-separated segments   *)
(* of the base followed by the href, or, when the base has fewer than      *)
(* three segments, the base without one trailing slash followed by the     *)
(* href; otherwise it is the base without one trailing slash, "/", href.   *)
(***************************************************************************)
C12_RelativeHrefResolved ==
    (norm.stage \in {"once", "twice"} /\ ~Exempt(norm.href)) =>
        /\ norm.link = IF Begins(norm.href, "/")
                       THEN RootRelative(norm.base, norm.href)
                       ELSE PathRelative(norm.base, norm.href)
        /\ (norm.base = "https://example.com/a/b" /\ norm.href = "/c") =>
              norm.link = "https://example.com/c"
        /\ (norm.base = "https://example.com/a/b" /\ norm.href = "c") =>
              norm.link = "https://example.com/a/b/c"
        /\ (norm.base = "example.com/" /\ norm.href = "/c") =>
              norm.link = "example.com/c"

\* a root-relative href against a page URL with a path has been normalized
C12_Witness ==
    /\ norm.stage = "once"
    /\ norm.base = "https://example.com/a/b"
    /\ norm.href = "/c"

(***************************************************************************)
(* C15. An href starting with "//" is resolved by the path-relative rule:  *)
(* the base without one trailing slash, "/", href.                         *)
(***************************************************************************)
C15_ProtocolRelativeIsPathRelative ==
    (norm.stage \in {"once", "twice"} /\ Begins(norm.href, "//")) =>
        norm.link = PathRelative(norm.base, norm.href)

(***************************************************************************)
(* C15 (amended). An href starting with "//" is resolved by the            *)
(* root-relative rule: the first three segments of the base (or the base   *)
(* without one trailing slash, when it has fewer) followed by the href.    *)
(***************************************************************************)
C15_ProtocolRelativeIsRootRelative ==
    (norm.stage \in {"once", "twice"} /\ Begins(norm.href, "//")) =>
        /\ norm.link = RootRelative(norm.base, norm.href)
        /\ (norm.base = "https://example.com/a/b" /\ norm.href = "//c") =>
              norm.link = "https://example.com//c"

\* an href "//c" against a page URL with a path has been normalized
C15_Witness ==
    /\ norm.stage = "once"
    /\ norm.base = "https://example.com/a/b"
    /\ norm.href = "//c"

(***************************************************************************)
(* C13. With a url, no selector parameter and no catalog entry whose URL   *)
(* is exactly the url, the handler fetches nothing and renders the error   *)
(* "Please provide a CSS selector."; with a catalog URL it scrapes with    *)
(* that entry's selector; a selector given in the request is used as given.*)
(***************************************************************************)
CatalogEntries(url) ==
    {i \in 1..Len(recommendedSites) : recommendedSites[i].URL = url}

C13_SelectorResolution ==
    /\ CatalogEntries("https://github.com/trending/") = {}
    /\ DefaultSelector("https://github.com/trending/") = ""
    /\ \A h \in Handlers :
         (pc[h] \in {"scrape", "render"} /\ r[h].url # "") =>
            /\ r[h].selector # "" =>
                  /\ selector[h] = r[h].selector
                  /\ data[h].Selector = r[h].selector
                  /\ pc[h] = "render" => res[h] # NoResponse
            /\ (r[h].selector = "" /\ CatalogEntries(r[h].url) = {}) =>
                  /\ pc[h] = "render"
                  /\ res[h] = NoResponse
                  /\ ret[h] = NoReturn
                  /\ data[h].Error = "Please provide a CSS selector."
                  /\ data[h].Results = <<>>
            /\ (r[h].selector = "" /\ CatalogEntries(r[h].url) # {}) =>
                  /\ \E i \in CatalogEntries(r[h].url) :
                        /\ selector[h] = recommendedSites[i].Selector
                        /\ data[h].Selector = recommendedSites[i].Selector
                  /\ pc[h] = "render" => res[h] # NoResponse

\* one handler renders the validation error while another scrapes a catalog
\* URL with the catalog's selector
C13_Witness ==
    \E h, g \in Handlers :
        /\ pc[h] = "render"
        /\ r[h] = [url |-> "http://e.com/a", selector |-> ""]
        /\ data[h].Error = "Please provide a CSS selector."
        /\ pc[g] = "render"
        /\ r[g] = [url |-> "https://github.com/trending", selector |-> ""]
        /\ selector[g] = "h2 a"
        /\ data[g].Results # <<>>

(***************************************************************************)
(* C14. After a failed scrape (transport failure, status other than 200,   *)
(* unreadable body) the handler passes to the template a page with its     *)
(* URL, a non-empty error and no results, the URL is in the history (as    *)
(* long as no more than 10 requests were served since the start), and the  *)
(* handler can finish; no page has both an error and results.              *)
(***************************************************************************)
Failed(resp) ==
    \/ ~resp.err.nil
    \/ resp.StatusCode # 200
    \/ ~resp.Body.readable

C14_FailureRenderedAsError ==
    \A h \in Handlers :
        pc[h] = "render" =>
            /\ ~(data[h].Error # "" /\ data[h].Results # <<>>)
            /\ (res[h] # NoResponse /\ Failed(res[h])) =>
                  /\ data[h].Error # ""
                  /\ data[h].Results = <<>>
                  /\ data[h].URL = r[h].url
                  /\ served <= 10 => r[h].url \in Elements(committed)
                  /\ ENABLED Render(h)

\* two handlers render failures at once: a transport failure and an
\* unreadable body
C14_Witness ==
    \E h, g \in Handlers :
        /\ pc[h] = "render" /\ ~res[h].err.nil
        /\ pc[g] = "render" /\ res[g].err.nil /\ res[g].StatusCode = 200
        /\ ~res[g].Body.readable
        /\ data[g].Error # ""

(***************************************************************************)
(* C16. A handler holds mu only inside getVisited and addToVisited, never  *)
(* while it is in scrapeWebsite; every acquisition of mu is followed by    *)
(* its release, and a handler that has called getVisited or addToVisited   *)
(* returns from it, whatever the fetches of the other handlers do.         *)
(***************************************************************************)
InGetVisited == {"gvCopy", "gvReturn"}

InAddToVisited == {"avScan", "avMove", "avTrim", "avReturn"}

C16_LockOnlyAroundHistory ==
    /\ [](\A h \in Handlers :
            /\ mu = h => pc[h] \in InGetVisited \cup InAddToVisited
            /\ pc[h] \in {"scrape", "render", "idle"} => mu # h)
    /\ \A h \in Handlers : (mu = h) ~> (mu # h)
    /\ \A h \in Handlers :
         (pc[h] = "getVisited") ~> (pc[h] \in {"addToVisited", "render"})
    /\ \A h \in Handlers :
         (pc[h] = "addToVisited") ~> (pc[h] \in {"scrape", "render"})

\* a handler is in its fetch while the other holds mu inside addToVisited
C16_Witness ==
    \E h, g \in Handlers :
        /\ pc[h] = "scrape"
        /\ mu = g
        /\ pc[g] \in InAddToVisited

(***************************************************************************)
(* C17. The Visited list of a page is the snapshot taken before the        *)
(* request's own URL is recorded: it is fixed when the handler reaches     *)
(* addToVisited and no later step of the invocation changes it; a URL that *)
(* no other request has asked for is not in the page's Visited list, also  *)
(* when invocations overlap; while requests are served one after the other *)
(* the Visited list is the reverse of the history as addToVisited found    *)
(* it, so a repeated URL is shown at the position it had before; and when  *)
(* addToVisited returns the URL is the last entry of the history, the      *)
(* first of the next snapshot.                                             *)
(***************************************************************************)
Recording == {"addToVisited"} \cup InAddToVisited \cup {"scrape"}

\* all requests so far arrived while no other invocation was running
OneAtATime == served + MaxOverlapped <= MaxHistoryRequests

\* the request of h is the only one so far for its URL: the URL is the k-th
\* history URL, and every repeating request so far arrived when fewer than
\* k history URLs were in use
FirstTime(h) ==
    \E k \in 1..fresh :
        /\ r[h].url = HistoryURL(k)
        /\ \A s \in RepeatSlots : s <= served => s <= k

C17_SnapshotBeforeOwnRecord ==
    /\ [][\A h \in Handlers :
             pc[h] \in Recording => data'[h].Visited = data[h].Visited]_vars
    /\ [](\A h \in Handlers :
            pc[h] \in InAddToVisited =>
              /\ FirstTime(h) =>
                    r[h].url \notin Elements(data[h].Visited)
              /\ OneAtATime => data[h].Visited = Reversed(entry)
              /\ pc[h] = "avReturn" =>
                    /\ visitedURLs # <<>>
                    /\ visitedURLs[Len(visitedURLs)] = r[h].url
                    /\ Reversed(visitedURLs)[1] = r[h].url)

\* a repeated URL has been recorded: its page shows it at its previous
\* position, not first, and the history now has it last
C17_Witness ==
    \E h \in Handlers :
        /\ pc[h] = "avReturn"
        /\ OneAtATime
        /\ \E i \in 2..Len(data[h].Visited) :
              /\ data[h].Visited[i] = r[h].url
              /\ entry[Len(entry) + 1 - i] = r[h].url
        /\ visitedURLs[Len(visitedURLs)] = r[h].url

====
